---- MODULE Spec2Model ----
(***************************************************************************)
(* Model of nhldata/app.py: the NHL crawler.                               *)
(*                                                                         *)
(*   - parse_crawl_args      (pure, specification SpecArgs)                *)
(*   - Crawler.parse_player_data / Crawler.create_game_stats               *)
(*                           (pure, specification SpecStats)               *)
(*   - Crawler.crawl with NHLApi and Storage as its environment            *)
(*                           (specification Spec)                          *)
(*                                                                         *)
(* Python strings whose characters the code inspects (dict keys, column    *)
(* names, date strings) are sequences of one-character strings.  Python    *)
(* dicts keep insertion order and are sequences of <<key, value>> pairs.   *)
(***************************************************************************)
EXTENDS Integers, Sequences, FiniteSets, TLC

VARIABLES
    pc,            \* position of the running function
    start_date,    \* parse_crawl_args / crawl argument
    end_date,      \* parse_crawl_args / crawl argument
    result,        \* value returned or exception raised by the running function
    game_data,     \* box score: input of create_game_stats, local of crawl
    player_data,   \* input of parse_player_data
    game_data_df,  \* table built by create_game_stats (local of crawl)
    schedule,      \* response of NHLApi.schedule (local of crawl)
    todo,          \* games of the nested for-loops of crawl not yet started
    game,          \* gamePk of the game the loop body of crawl is working on
    bucket,        \* objects of the S3 bucket, a sequence of <<key, body>>
    calls          \* calls crawl has issued to the api, the builder and s3

vars == <<pc, start_date, end_date, result, game_data, player_data,
          game_data_df, schedule, todo, game, bucket, calls>>

(***************************************************************************)
(* Bounds of the model.                                                    *)
(***************************************************************************)
MaxPlayers == 2     \* players in one box score / records in one list
MaxDates == 2       \* dates in one schedule response
MaxGames == 2       \* games listed under one date

(***************************************************************************)
(* Python values.                                                          *)
(***************************************************************************)
None == "<None>"
NaN == "<NaN>"
NoTable == [columns |-> <<>>, rows |-> <<>>]
NoTeams == [has_teams |-> FALSE, teams |-> <<>>]   \* a response without 'teams'

Leaf(v) == [kind |-> "leaf", val |-> v, kids |-> <<>>]
Dict(entries) == [kind |-> "dict", val |-> "", kids |-> entries]

\* Keys and column names, character by character.
k_person == <<"p","e","r","s","o","n">>
k_id == <<"i","d">>
k_primaryPosition == <<"p","r","i","m","a","r","y","P","o","s","i","t","i","o","n">>
k_position == <<"p","o","s","i","t","i","o","n">>
k_name == <<"n","a","m","e">>
k_abbreviation == <<"a","b","b","r","e","v","i","a","t","i","o","n">>
k_side == <<"s","i","d","e">>
k_stats == <<"s","t","a","t","s">>
k_goals == <<"g","o","a","l","s">>
k_stats_dot_goals == <<"s","t","a","t","s",".","g","o","a","l","s">>
k_jersey == <<"j","e","r","s","e","y">>
prefix_player == <<"p","l","a","y","e","r","_">>
col_player_side == prefix_player \o k_side
col_player_position_name == prefix_player \o k_position \o <<"_">> \o k_name
col_player_position_abbreviation ==
    prefix_player \o k_position \o <<"_">> \o k_abbreviation
col_player_person_id == prefix_player \o k_person \o <<"_">> \o k_id

(***************************************************************************)
(* dict operations on sequences of <<key, value>> pairs.                   *)
(***************************************************************************)
Keys(d) == {d[i][1] : i \in DOMAIN d}
HasKey(d, k) == \E i \in DOMAIN d : d[i][1] = k
Get(d, k) == d[CHOOSE i \in DOMAIN d : d[i][1] = k][2]

\* d[k] = v: an existing key keeps its place, a new key goes last.
DictSet(d, k, v) ==
    IF HasKey(d, k)
    THEN [i \in DOMAIN d |-> IF d[i][1] = k THEN <<k, v>> ELSE d[i]]
    ELSE Append(d, <<k, v>>)

RECURSIVE DictUpdate(_, _)
DictUpdate(d, e) ==
    IF e = <<>> THEN d
    ELSE DictUpdate(DictSet(d, Head(e)[1], Head(e)[2]), Tail(e))

(***************************************************************************)
(* pandas.json_normalize(list of dicts), default separator ".".            *)
(***************************************************************************)
JoinKey(key_string, key) ==
    IF key_string = <<>> THEN key ELSE key_string \o <<".">> \o key

\* Depth-first flattening of one nested dict into <<dotted key, value>> pairs.
RECURSIVE NormaliseJson(_, _)
NormaliseJson(entries, key_string) ==
    IF entries = <<>> THEN <<>>
    ELSE LET e == Head(entries)
             new_key == JoinKey(key_string, e[1])
             here == IF e[2].kind = "dict"
                     THEN NormaliseJson(e[2].kids, new_key)
                     ELSE << <<new_key, e[2].val>> >>
         IN  DictUpdate(here, NormaliseJson(Tail(entries), key_string))

IsLeafEntry(e) == e[2].kind = "leaf"
IsDictEntry(e) == e[2].kind = "dict"

\* One record: the top-level scalars first, then the flattened nested dicts.
NormaliseJsonOrdered(record) ==
    LET top == SelectSeq(record, IsLeafEntry)
        top_dict == [i \in DOMAIN top |-> <<top[i][1], top[i][2].val>>]
        nested_dict == NormaliseJson(SelectSeq(record, IsDictEntry), <<>>)
    IN  DictUpdate(top_dict, nested_dict)

\* Faulty variant of UnionColumns: the columns of the first record alone.
UnionColumnsOfFirst(flat, cols) ==
    IF flat = <<>> THEN cols
    ELSE [i \in DOMAIN Head(flat) |-> Head(flat)[i][1]]

\* Column index of a list of flat dicts: every key, in first-seen order.
RECURSIVE UnionColumns(_, _)
UnionColumns(flat, cols) ==
    IF flat = <<>> THEN cols
    ELSE LET ks == [i \in DOMAIN Head(flat) |-> Head(flat)[i][1]]
             InCols(k) == \E j \in DOMAIN cols : cols[j] = k
             IsNew(k) == ~InCols(k)
         IN  UnionColumns(Tail(flat), cols \o SelectSeq(ks, IsNew))

\* A cell of the frame: the record's value, NaN where the record lacks the key.
FrameCell(flat_record, column) ==
    IF HasKey(flat_record, column) THEN Get(flat_record, column) ELSE NaN

\* DataFrame(list of flat dicts).
DataFrame(flat) ==
    LET cols == UnionColumns(flat, <<>>)
    IN  [columns |-> cols,
         rows |-> [r \in DOMAIN flat |->
                      [c \in DOMAIN cols |-> FrameCell(flat[r], cols[c])]]]

json_normalize(data) ==
    DataFrame([r \in DOMAIN data |-> NormaliseJsonOrdered(data[r])])

(***************************************************************************)
(* Crawler.parse_player_data                                               *)
(***************************************************************************)
add_prefix(col) == prefix_player \o col

RenameSide(col) == IF col = col_player_side THEN k_side ELSE col

\* Faulty variant of ReplaceDots: the second rename is missing.
ReplaceDotsSkipped(col) == col

ReplaceDots(col) == [i \in DOMAIN col |-> IF col[i] = "." THEN "_" ELSE col[i]]

NullToNone(v) == IF v = NaN \/ v = None THEN None ELSE v

parse_player_data(data) ==
    LET df == json_normalize(data)
        c1 == [i \in DOMAIN df.columns |-> add_prefix(df.columns[i])]
        c2 == [i \in DOMAIN c1 |-> RenameSide(c1[i])]
        c3 == [i \in DOMAIN c2 |-> ReplaceDots(c2[i])]
    IN  [columns |-> c3,
         rows |-> [r \in DOMAIN df.rows |->
                      [c \in DOMAIN df.rows[r] |-> NullToNone(df.rows[r][c])]]]

(***************************************************************************)
(* Crawler.create_game_stats                                               *)
(*   game_data = [has_teams |-> FALSE, teams |-> <<>>]: no 'teams' key, or *)
(*   game_data = [has_teams |-> TRUE,                                      *)
(*                teams |-> << <<side, << <<playerId, record>>, ... >> >>, *)
(*                             ... >>], the teams mapping and each side's  *)
(*   players mapping in their iteration order.                             *)
(***************************************************************************)
\* player['person']['primaryPosition']['name'] can be evaluated
HasPrimaryPositionName(player) ==
    /\ HasKey(player, k_person)
    /\ HasKey(Get(player, k_person).kids, k_primaryPosition)
    /\ HasKey(Get(Get(player, k_person).kids, k_primaryPosition).kids, k_name)

PrimaryPositionName(player) ==
    Get(Get(Get(player, k_person).kids, k_primaryPosition).kids, k_name).val

\* The filter of the loop body: 'Goalie' != player[...]['name']
IsKept(player) == "Goalie" # PrimaryPositionName(player)

\* Faulty variant of TeamOrder: the home side first, whatever the mapping's order.
TeamOrderHomeFirst(teams) ==
    LET idx == [i \in DOMAIN teams |-> i]
        IsHome(i) == teams[i][1] = "home"
        NotHome(i) == teams[i][1] # "home"
    IN  SelectSeq(idx, IsHome) \o SelectSeq(idx, NotHome)

\* The order in which the loop visits the teams mapping.
TeamOrder(teams) == [i \in DOMAIN teams |-> i]

\* <<team index, player index>> of every player, in the order the nested
\* for-loops visit them.
RECURSIVE Slots(_, _)
Slots(teams, order) ==
    IF order = <<>> THEN <<>>
    ELSE LET ti == Head(order)
         IN  [pi \in DOMAIN teams[ti][2] |-> <<ti, pi>>]
             \o Slots(teams, Tail(order))

\* One pass of the loop body.
VisitPlayer(acc, slot) ==
    LET ti == slot[1]
        pi == slot[2]
        team == acc.teams[ti][1]
        player == acc.teams[ti][2][pi][2]
    IN  IF acc.err # "" THEN acc
        ELSE IF ~HasPrimaryPositionName(player)
        THEN [acc EXCEPT !.err = "KeyError"]
        ELSE IF IsKept(player)
        THEN LET tagged == DictSet(player, k_side, Leaf(team))
             IN  [err |-> "",
                  teams |-> [acc.teams EXCEPT ![ti][2][pi][2] = tagged],
                  data |-> Append(acc.data, tagged)]
        ELSE acc

RECURSIVE VisitAll(_, _)
VisitAll(acc, slots) ==
    IF slots = <<>> THEN acc
    ELSE VisitAll(VisitPlayer(acc, Head(slots)), Tail(slots))

\* [err, teams (the box score as the call leaves it), df]
create_game_stats(gd) ==
    IF ~gd.has_teams
    THEN [err |-> "TypeError", teams |-> gd.teams, df |-> NoTable]
    ELSE LET acc == VisitAll([err |-> "", teams |-> gd.teams, data |-> <<>>],
                             Slots(gd.teams, TeamOrder(gd.teams)))
         IN  [err |-> acc.err,
              teams |-> acc.teams,
              df |-> IF acc.err = "" THEN parse_player_data(acc.data)
                     ELSE NoTable]

(***************************************************************************)
(* Inputs of the table builders: player records of the shape NHLApi.boxscore*)
(* documents, with the optional parts present or absent.                   *)
(***************************************************************************)
Abbreviation(position_name) == IF position_name = "Goalie" THEN "G" ELSE "D"

PositionDict(position_name) ==
    Dict(<< <<k_name, Leaf(position_name)>>,
            <<k_abbreviation, Leaf(Abbreviation(position_name))>> >>)

\* pos: the player's "position"; prim: "person"."primaryPosition"
\* ("none": the key is absent); extra: one more optional field.
Templates ==
    { [pos |-> "Defenseman", prim |-> "Defenseman", extra |-> "none"],
      [pos |-> "Goalie",     prim |-> "Goalie",     extra |-> "none"],
      [pos |-> "Goalie",     prim |-> "Defenseman", extra |-> "none"],
      [pos |-> "Defenseman", prim |-> "Goalie",     extra |-> "none"],
      [pos |-> "none",       prim |-> "Defenseman", extra |-> "stats"],
      [pos |-> "Defenseman", prim |-> "Defenseman", extra |-> "side"],
      [pos |-> "Defenseman", prim |-> "Defenseman", extra |-> "dotted"],
      [pos |-> "Defenseman", prim |-> "Defenseman", extra |-> "null"],
      [pos |-> "Defenseman", prim |-> "none",       extra |-> "none"] }

PlayerId(n) == "p" \o ToString(n)

Player(n, t) ==
    LET person ==
            << <<k_id, Leaf(PlayerId(n))>> >>
            \o (IF t.prim = "none" THEN <<>>
                ELSE << <<k_primaryPosition, PositionDict(t.prim)>> >>)
    IN  << <<k_person, Dict(person)>> >>
        \o (IF t.pos = "none" THEN <<>>
            ELSE << <<k_position, PositionDict(t.pos)>> >>)
        \o (CASE t.extra = "side" -> << <<k_side, Leaf("bench")>> >>
              [] t.extra = "stats" ->
                    << <<k_stats, Dict(<< <<k_goals, Leaf("2")>> >>)>> >>
              [] t.extra = "dotted" -> << <<k_stats_dot_goals, Leaf("7")>> >>
              [] t.extra = "null" -> << <<k_jersey, Leaf(None)>> >>
              [] OTHER -> <<>>)

\* The orders and key sets of the teams mapping.
Layouts ==
    { <<"home", "away">>, <<"away", "home">>, <<"home">>,
      <<"home", "away", "neutral">> }

\* s: a sequence of <<template, team index>>, team indices never decreasing.
BoxScore(layout, s) ==
    LET idx == [k \in DOMAIN s |-> k]
        Of(ti) == LET OnTeam(k) == s[k][2] = ti
                      ks == SelectSeq(idx, OnTeam)
                  IN  [j \in DOMAIN ks |->
                          <<"ID" \o ToString(ks[j]), Player(ks[j], s[ks[j]][1])>>]
    IN  [has_teams |-> TRUE,
         teams |-> [ti \in DOMAIN layout |-> <<layout[ti], Of(ti)>>]]

BoxScores ==
    { NoTeams } \cup
    { BoxScore(layout, s) :
        layout \in Layouts,
        s \in UNION { { q \in [1..n -> Templates \X (1..3)] :
                          \A k \in 1..n : k < n => q[k][2] <= q[k+1][2] } :
                      n \in 0..MaxPlayers } }

\* Lists handed to parse_player_data: records with or without a side.
RecordLists ==
    UNION { { [k \in 1..n |->
                 IF q[k][2] = "" THEN Player(k, q[k][1])
                 ELSE DictSet(Player(k, q[k][1]), k_side, Leaf(q[k][2]))] :
              q \in [1..n -> Templates \X {"", "home"}] } :
            n \in 0..MaxPlayers }

(***************************************************************************)
(* Specification SpecStats: the two table builders applied to every input. *)
(***************************************************************************)
Idle ==
    /\ start_date = <<>> /\ end_date = <<>>
    /\ schedule = <<>> /\ todo = <<>> /\ game = 0
    /\ bucket = <<>> /\ calls = <<>>

InitStats ==
    /\ Idle
    /\ result = None
    /\ game_data_df = NoTable
    /\ \/ /\ pc = "create_game_stats"
          /\ game_data \in BoxScores
          /\ player_data = <<>>
       \/ /\ pc = "parse_player_data"
          /\ game_data = NoTeams
          /\ player_data \in RecordLists

CallCreateGameStats ==
    /\ pc = "create_game_stats"
    /\ LET r == create_game_stats(game_data)
       IN  /\ game_data' = [game_data EXCEPT !.teams = r.teams]
           /\ game_data_df' = r.df
           /\ result' = IF r.err = "" THEN "returned" ELSE r.err
    /\ pc' = "create_game_stats_done"
    /\ UNCHANGED <<start_date, end_date, player_data, schedule, todo, game,
                   bucket, calls>>

CallParsePlayerData ==
    /\ pc = "parse_player_data"
    /\ game_data_df' = parse_player_data(player_data)
    /\ result' = "returned"
    /\ pc' = "parse_player_data_done"
    /\ UNCHANGED <<start_date, end_date, game_data, player_data, schedule,
                   todo, game, bucket, calls>>

NextStats == CallCreateGameStats \/ CallParsePlayerData

SpecStats == InitStats /\ [][NextStats]_vars

(***************************************************************************)
(* Properties of the table builders (specification SpecStats).             *)
(***************************************************************************)
Built == pc = "create_game_stats_done" /\ result = "returned"
Parsed == pc = "parse_player_data_done"

ColumnsNamed(df, name) == {c \in DOMAIN df.columns : df.columns[c] = name}
CellsOf(df, name) ==
    {df.rows[r][c] : r \in DOMAIN df.rows, c \in ColumnsNamed(df, name)}

StartsWith(col, prefix) ==
    Len(col) >= Len(prefix) /\ SubSeq(col, 1, Len(prefix)) = prefix

\* The <<dotted path, value>> pairs of the leaves of a nested dict.
RECURSIVE LeafSet(_, _)
LeafSet(entries, path) ==
    UNION { IF entries[i][2].kind = "dict"
            THEN LeafSet(entries[i][2].kids, JoinKey(path, entries[i][1]))
            ELSE { <<JoinKey(path, entries[i][1]), entries[i][2].val>> } :
            i \in DOMAIN entries }

LeafKeys(record) == {l[1] : l \in LeafSet(record, <<>>)}
AllLeafKeys(data) == UNION {LeafKeys(data[r]) : r \in DOMAIN data}

\* The name the column of a flattened key is expected to carry.
ExpectedColumn(key) ==
    IF key = k_side THEN k_side
    ELSE [i \in 1..(Len(prefix_player) + Len(key)) |->
             IF i <= Len(prefix_player) THEN prefix_player[i]
             ELSE IF key[i - Len(prefix_player)] = "." THEN "_"
             ELSE key[i - Len(prefix_player)]]

\* C1: no row of the table create_game_stats returns has
\* player_position_name "Goalie" or player_position_abbreviation "G".
C1_NoGoalieRow ==
    Built =>
        /\ "Goalie" \notin CellsOf(game_data_df, col_player_position_name)
        /\ "G" \notin CellsOf(game_data_df, col_player_position_abbreviation)

\* C2: every row of the table create_game_stats returns has a column named
\* side, none named player_side, and its side is "home" or "away".
C2_SideIsHomeOrAway ==
    Built =>
        \A r \in DOMAIN game_data_df.rows :
            /\ ColumnsNamed(game_data_df, col_player_side) = {}
            /\ \E c \in ColumnsNamed(game_data_df, k_side) :
                   game_data_df.rows[r][c] \in {"home", "away"}

\* C3: every column name parse_player_data produces is side or starts with
\* player_, and none contains a ".".
C3_ColumnNames ==
    (Parsed \/ Built) =>
        \A c \in DOMAIN game_data_df.columns :
            LET col == game_data_df.columns[c]
            IN  /\ col = k_side \/ StartsWith(col, prefix_player)
                /\ \A i \in DOMAIN col : col[i] # "."

\* C3 witness: a list with a nested key, a key holding a "." and a side
\* has been flattened.
C3_Witness ==
    /\ Parsed
    /\ \E r \in DOMAIN player_data :
           /\ HasKey(player_data[r], k_stats_dot_goals)
           /\ HasKey(player_data[r], k_side)
    /\ ColumnsNamed(game_data_df, k_side) # {}
    /\ Len(game_data_df.columns) >= 4

\* C6: the table parse_player_data produces has one column per flattened
\* key seen in any record, and every row has a cell in every column: the
\* record's value, or None where the record lacks the key.
C6_Rectangular ==
    Parsed =>
        LET keys == AllLeafKeys(player_data)
            df == game_data_df
        IN  /\ Len(df.columns) = Cardinality(keys)
            /\ {df.columns[c] : c \in DOMAIN df.columns}
                   = {ExpectedColumn(k) : k \in keys}
            /\ Len(df.rows) = Len(player_data)
            /\ \A r \in DOMAIN df.rows :
                   /\ DOMAIN df.rows[r] = DOMAIN df.columns
                   /\ \A c \in DOMAIN df.columns :
                          \E k \in keys :
                              /\ df.columns[c] = ExpectedColumn(k)
                              /\ IF k \in LeafKeys(player_data[r])
                                 THEN <<k, df.rows[r][c]>>
                                          \in LeafSet(player_data[r], <<>>)
                                 ELSE df.rows[r][c] = None

\* C6 witness: two records with different key sets were flattened and a
\* cell of the table holds the null marker for a key its record lacks.
C6_Witness ==
    /\ Parsed
    /\ Len(player_data) >= 2
    /\ \E r \in DOMAIN player_data, k \in AllLeafKeys(player_data) :
           /\ k \notin LeafKeys(player_data[r])
           /\ \E c \in ColumnsNamed(game_data_df, ExpectedColumn(k)) :
                  game_data_df.rows[r][c] = None

\* <<person id, side>> of the players of one team that are not goalies by
\* person.primaryPosition.name, in the players mapping's order.
TeamSkaters(team) ==
    LET ids == [i \in DOMAIN team[2] |->
                   << Get(Get(team[2][i][2], k_person).kids, k_id).val,
                      team[1],
                      PrimaryPositionName(team[2][i][2]) >>]
        NotGoalie(x) == x[3] # "Goalie"
        kept == SelectSeq(ids, NotGoalie)
    IN  [i \in DOMAIN kept |-> <<kept[i][1], kept[i][2]>>]

RECURSIVE Skaters(_, _)
Skaters(teams, order) ==
    IF order = <<>> THEN <<>>
    ELSE TeamSkaters(teams[Head(order)]) \o Skaters(teams, Tail(order))

SideIndex(teams, side) == CHOOSE i \in DOMAIN teams : teams[i][1] = side
SidesOf(teams) == {teams[i][1] : i \in DOMAIN teams}

\* <<person id, side>> of every row of the table, in row order.
RowOrigins(df) ==
    [r \in DOMAIN df.rows |->
        << df.rows[r][CHOOSE c \in DOMAIN df.columns :
                          df.columns[c] = col_player_person_id],
           df.rows[r][CHOOSE c \in DOMAIN df.columns :
                          df.columns[c] = k_side] >>]

\* C10 as claimed, on the box scores with exactly a home and an away side:
\* the rows are the home non-goalies followed by the away non-goalies,
\* whichever side the teams mapping lists first.
C10_HomeThenAway ==
    (Built /\ SidesOf(game_data.teams) = {"home", "away"}) =>
        RowOrigins(game_data_df)
            = Skaters(game_data.teams,
                      << SideIndex(game_data.teams, "home"),
                         SideIndex(game_data.teams, "away") >>)

\* C10 as amended: the rows are the non-goalie records (by
\* person.primaryPosition.name), one row each, side by side in the order
\* the teams mapping lists its sides, each side in its players mapping's
\* order; a side without eligible player contributes no row.
C10_MappingOrder ==
    Built =>
        RowOrigins(game_data_df)
            = Skaters(game_data.teams,
                      [i \in DOMAIN game_data.teams |-> i])

\* C10 witness: a table was built from a box score that lists away before
\* home, with a skater on each side and a side contributing no row.
C10_Witness ==
    /\ Built
    /\ Len(game_data_df.rows) = 2
    /\ Len(game_data.teams) >= 2
    /\ game_data.teams[1][1] = "away"
    /\ RowOrigins(game_data_df)[1][2] = "away"
    /\ RowOrigins(game_data_df)[2][2] = "home"

(***************************************************************************)
(* parse_crawl_args.  A date is <<year, month, day>>.                      *)
(***************************************************************************)
Digits == <<"0", "1", "2", "3", "4", "5", "6", "7", "8", "9">>
IsDigit(ch) == \E i \in DOMAIN Digits : Digits[i] = ch
DigitValue(ch) == (CHOOSE i \in DOMAIN Digits : Digits[i] = ch) - 1

RECURSIVE Number(_)
Number(field) ==
    IF field = <<>> THEN 0
    ELSE 10 * Number(SubSeq(field, 1, Len(field) - 1))
         + DigitValue(field[Len(field)])

AllDigits(field) == \A i \in DOMAIN field : IsDigit(field[i])

\* The fields between the "-" of a string.
RECURSIVE Fields(_, _)
Fields(str, field) ==
    IF str = <<>> THEN <<field>>
    ELSE IF Head(str) = "-" THEN <<field>> \o Fields(Tail(str), <<>>)
    ELSE Fields(Tail(str), Append(field, Head(str)))

\* The directives of '%Y-%m-%d' as _strptime's regular expression has them:
\* %Y \d\d\d\d, %m 1[0-2]|0[1-9]|[1-9], %d 3[01]|[12]\d|0[1-9]|[1-9]| [1-9].
MatchesYear(f) == Len(f) = 4 /\ AllDigits(f)
MatchesMonth(f) ==
    \/ Len(f) = 2 /\ f[1] = "1" /\ f[2] \in {"0", "1", "2"}
    \/ Len(f) = 2 /\ f[1] = "0" /\ IsDigit(f[2]) /\ f[2] # "0"
    \/ Len(f) = 1 /\ IsDigit(f[1]) /\ f[1] # "0"
MatchesDay(f) ==
    \/ Len(f) = 2 /\ f[1] = "3" /\ f[2] \in {"0", "1"}
    \/ Len(f) = 2 /\ f[1] \in {"1", "2"} /\ IsDigit(f[2])
    \/ Len(f) = 2 /\ f[1] \in {"0", " "} /\ IsDigit(f[2]) /\ f[2] # "0"
    \/ Len(f) = 1 /\ IsDigit(f[1]) /\ f[1] # "0"
DayNumber(f) == IF f[1] = " " THEN Number(Tail(f)) ELSE Number(f)

IsLeap(y) == y % 4 = 0 /\ (y % 100 # 0 \/ y % 400 = 0)
DaysInMonth(y, m) ==
    IF m = 2 THEN (IF IsLeap(y) THEN 29 ELSE 28)
    ELSE IF m \in {4, 6, 9, 11} THEN 30 ELSE 31

\* datetime(year, month, day) raises ValueError outside these ranges.
IsDate(y, m, d) ==
    y \in 1..9999 /\ m \in 1..12 /\ d \in 1..DaysInMonth(y, m)

\* datetime.strptime(str, '%Y-%m-%d'): [ok, date]; not ok is a ValueError.
strptime(str) ==
    LET f == Fields(str, <<>>)
        matched == /\ Len(f) = 3
                   /\ MatchesYear(f[1]) /\ MatchesMonth(f[2]) /\ MatchesDay(f[3])
        date == <<Number(f[1]), Number(f[2]), DayNumber(f[3])>>
    IN  IF matched /\ IsDate(date[1], date[2], date[3])
        THEN [ok |-> TRUE, date |-> date]
        ELSE [ok |-> FALSE, date |-> <<0, 0, 0>>]

\* datetime a < datetime b
DateLess(a, b) ==
    \/ a[1] < b[1]
    \/ a[1] = b[1] /\ a[2] < b[2]
    \/ a[1] = b[1] /\ a[2] = b[2] /\ a[3] < b[3]

\* Faulty variant of StartNotBeforeEnd: start_date > end_date.
StartAfterEnd(s, e) == DateLess(e, s)

\* start_date >= end_date, the guard of the range error
StartNotBeforeEnd(s, e) == ~DateLess(s, e)

Raise(exception, message) ==
    [raised |-> exception, message |-> message, value |-> <<>>]
Return(value) == [raised |-> "", message |-> "", value |-> value]

parse_crawl_args(s, e) ==
    LET sd == strptime(s)
        ed == strptime(e)
    IN  IF ~sd.ok
        THEN Raise("ValueError",
                   "ValueError invalid start_date. Use value like 2020-08-04")
        ELSE IF ~ed.ok
        THEN Raise("ValueError",
                   "Invalid start_date. Use value like 2020-08-04")
        ELSE IF StartNotBeforeEnd(sd.date, ed.date)
        THEN Raise("ValueError", "start_date must be less than end_date")
        ELSE Return(<<sd.date, ed.date>>)

\* Command-line values: well-formed dates, dates strptime takes although
\* they are not zero-padded, and strings that are no date.
DateStrings ==
    { <<"2","0","2","0","-","0","8","-","0","4">>,
      <<"2","0","2","0","-","0","8","-","0","5">>,
      <<"2","0","1","9","-","1","2","-","3","1">>,
      <<"2","0","2","0","-","0","2","-","2","9">>,
      <<"2","0","2","1","-","0","2","-","2","9">>,
      <<"2","0","2","0","-","0","4","-","3","1">>,
      <<"2","0","2","0","-","1","3","-","0","1">>,
      <<"2","0","2","0","-","a","b","-","1","2">>,
      <<"2","0","2","0","-","8","-","4">>,
      <<"2","0","2","0","-","0","8","-"," ","6">>,
      <<"2","0","2","0","-","0","8","-","0","4","5">>,
      <<"2","0","2","0","0","8","0","4">>,
      <<"0","0","0","0","-","0","1","-","0","1">>,
      <<>> }

(***************************************************************************)
(* Specification SpecArgs: parse_crawl_args applied to every pair.         *)
(***************************************************************************)
InitArgs ==
    /\ pc = "parse_crawl_args"
    /\ start_date \in DateStrings
    /\ end_date \in DateStrings
    /\ result = Return(<<>>)
    /\ game_data = NoTeams /\ player_data = <<>> /\ game_data_df = NoTable
    /\ schedule = <<>> /\ todo = <<>> /\ game = 0
    /\ bucket = <<>> /\ calls = <<>>

CallParseCrawlArgs ==
    /\ pc = "parse_crawl_args"
    /\ result' = parse_crawl_args(start_date, end_date)
    /\ pc' = "parse_crawl_args_done"
    /\ UNCHANGED <<start_date, end_date, game_data, player_data,
                   game_data_df, schedule, todo, game, bucket, calls>>

NextArgs == CallParseCrawlArgs

SpecArgs == InitArgs /\ [][NextArgs]_vars

\* A string of the exact form YYYY-MM-DD that names a calendar date.
WellFormed(str) ==
    /\ Len(str) = 10
    /\ str[5] = "-" /\ str[8] = "-"
    /\ \A i \in {1, 2, 3, 4, 6, 7, 9, 10} : IsDigit(str[i])
    /\ LET y == 1000 * DigitValue(str[1]) + 100 * DigitValue(str[2])
                + 10 * DigitValue(str[3]) + DigitValue(str[4])
           m == 10 * DigitValue(str[6]) + DigitValue(str[7])
           d == 10 * DigitValue(str[9]) + DigitValue(str[10])
       IN  /\ y >= 1 /\ m >= 1 /\ m <= 12 /\ d >= 1
           /\ d <= (CASE m = 2 -> IF (y % 4 = 0 /\ y % 100 # 0) \/ y % 400 = 0
                                  THEN 29 ELSE 28
                      [] m \in {4, 6, 9, 11} -> 30
                      [] OTHER -> 31)

DateOf(str) ==
    << 1000 * DigitValue(str[1]) + 100 * DigitValue(str[2])
       + 10 * DigitValue(str[3]) + DigitValue(str[4]),
       10 * DigitValue(str[6]) + DigitValue(str[7]),
       10 * DigitValue(str[9]) + DigitValue(str[10]) >>

\* Dates compared as the 8-digit numbers YYYYMMDD.
Ordinal(date) == 10000 * date[1] + 100 * date[2] + date[3]

FormatErrors ==
    { "ValueError invalid start_date. Use value like 2020-08-04",
      "Invalid start_date. Use value like 2020-08-04" }

\* C4: parse_crawl_args returns a well-formed pair with start < end as
\* dates, unchanged and in that order; fails with the range error on a
\* well-formed pair with start >= end; and fails with a format error,
\* returning nothing, when strptime refuses either string.
C4_ParseCrawlArgs ==
    pc = "parse_crawl_args_done" =>
        /\ (WellFormed(start_date) /\ WellFormed(end_date)) =>
               IF Ordinal(DateOf(start_date)) < Ordinal(DateOf(end_date))
               THEN /\ result.raised = ""
                    /\ result.value = <<DateOf(start_date), DateOf(end_date)>>
               ELSE /\ result.raised = "ValueError"
                    /\ result.message = "start_date must be less than end_date"
                    /\ result.value = <<>>
        /\ (~strptime(start_date).ok \/ ~strptime(end_date).ok) =>
               /\ result.raised = "ValueError"
               /\ result.message \in FormatErrors
               /\ result.value = <<>>

\* C4 witness: a well-formed pair with start = end was refused.
C4_Witness ==
    /\ pc = "parse_crawl_args_done"
    /\ WellFormed(start_date) /\ WellFormed(end_date)
    /\ start_date = end_date
    /\ result.raised = "ValueError"

(***************************************************************************)
(* StorageKey, Storage and the serialisation crawl hands to them.          *)
(***************************************************************************)
\* StorageKey.key(): f'{self.gameid}.csv'
StorageKey(gameid) == ToString(gameid) \o ".csv"

\* DataFrame.to_csv(buffer, na_rep=None): the header line (a blank label for
\* the index, then the column names) and one line per row (the index, then
\* the cells, a None cell written as an empty field).
to_csv(df) ==
    [header |-> << <<>> >> \o df.columns,
     lines |-> [r \in DOMAIN df.rows |->
                   <<ToString(r - 1)>>
                   \o [c \in DOMAIN df.rows[r] |->
                          IF df.rows[r][c] = None THEN "" ELSE df.rows[r][c]]]]

\* s3_client.put_object(Bucket, Key, Body) on the bucket's objects.
put_object(objects, key, body) == DictSet(objects, key, body)

(***************************************************************************)
(* The environment of Crawler.crawl: what the API answers.                 *)
(***************************************************************************)
GamePks == {2019030041, 2019030042}
NoDate == <<0, 0, 0>>
\* The date range crawl is called with (the default range of main).
Ranges == { << <<2020, 8, 4>>, <<2020, 8, 5>> >> }

SeqsUpTo(n, S) == UNION {[1..k -> S] : k \in 0..n}

\* The 'dates' of a schedule response: per date, the gamePk of its games.
ScheduleDates == SeqsUpTo(MaxDates, SeqsUpTo(MaxGames, GamePks))

\* A well-formed box score: a home skater, a home goalie, an away skater.
GoodBoxScore ==
    BoxScore(<<"home", "away">>,
             << <<[pos |-> "Defenseman", prim |-> "Defenseman", extra |-> "none"], 1>>,
                <<[pos |-> "Goalie", prim |-> "Goalie", extra |-> "none"], 1>>,
                <<[pos |-> "none", prim |-> "Defenseman", extra |-> "stats"], 2>> >>)

\* What NHLApi.boxscore may answer when it answers.
BoxscoreResponses == {GoodBoxScore, NoTeams}

(***************************************************************************)
(* Crawler.crawl                                                           *)
(***************************************************************************)
Call(op, gamePk, key, outcome) ==
    [op |-> op, game |-> gamePk, key |-> key, outcome |-> outcome]

CrawlRaise(exception, text, sd, ed) ==
    [raised |-> exception,
     message |-> [text |-> text, start_date |-> sd, end_date |-> ed]]
CrawlReturn == CrawlRaise("", "", NoDate, NoDate)

\* Faulty variant of ScheduleFailure: the api's exception re-raised as it came.
ScheduleFailureBare(sd, ed) == CrawlRaise("HTTPError", "", NoDate, NoDate)

\* raise Exception(f'Failed to get schedule for start_date=..., end_date=...')
ScheduleFailure(sd, ed) ==
    CrawlRaise("Exception", "Failed to get schedule for", sd, ed)

\* Faulty variant of GamesInOrder: the dates visited from the last to the first.
RECURSIVE GamesLastDateFirst(_)
GamesLastDateFirst(dates) ==
    IF dates = <<>> THEN <<>>
    ELSE GamesLastDateFirst(Tail(dates)) \o Head(dates)

\* The gamePk the nested for-loops visit, in the order they visit them.
RECURSIVE GamesInOrder(_)
GamesInOrder(dates) ==
    IF dates = <<>> THEN <<>>
    ELSE Head(dates) \o GamesInOrder(Tail(dates))

Init ==
    /\ pc = "schedule"
    /\ \E range \in Ranges : start_date = range[1] /\ end_date = range[2]
    /\ result = CrawlReturn
    /\ game_data = NoTeams /\ player_data = <<>> /\ game_data_df = NoTable
    /\ schedule = <<>> /\ todo = <<>> /\ game = 0
    /\ bucket = <<>> /\ calls = <<>>

\* schedule = self.api.schedule(...): it raises, and crawl raises its own
\* exception; or it answers without 'dates', and the for-loop raises; or it
\* answers with dates.
FetchSchedule ==
    /\ pc = "schedule"
    /\ \/ /\ calls' = Append(calls, Call("schedule", 0, "", "raised"))
          /\ result' = ScheduleFailure(start_date, end_date)
          /\ pc' = "Failed"
          /\ UNCHANGED <<schedule, todo>>
       \/ /\ calls' = Append(calls, Call("schedule", 0, "", "returned"))
          /\ result' = CrawlRaise("TypeError", "", NoDate, NoDate)
          /\ pc' = "Failed"
          /\ UNCHANGED <<schedule, todo>>
       \/ \E dates \in ScheduleDates :
            /\ calls' = Append(calls, Call("schedule", 0, "", "returned"))
            /\ schedule' = dates
            /\ todo' = GamesInOrder(dates)
            /\ pc' = "loop"
            /\ UNCHANGED result
    /\ UNCHANGED <<start_date, end_date, game_data, player_data,
                   game_data_df, game, bucket>>

\* The loop takes its next game: game_data = self.api.boxscore(gamePk)
FetchBoxscore ==
    /\ pc = "loop" /\ todo # <<>>
    /\ game' = Head(todo)
    /\ todo' = Tail(todo)
    /\ \/ /\ calls' = Append(calls, Call("boxscore", Head(todo), "", "raised"))
          /\ result' = CrawlRaise("HTTPError", "", NoDate, NoDate)
          /\ pc' = "Failed"
          /\ UNCHANGED game_data
       \/ \E response \in BoxscoreResponses :
            /\ calls' = Append(calls, Call("boxscore", Head(todo), "", "returned"))
            /\ game_data' = response
            /\ pc' = "build"
            /\ UNCHANGED result
    /\ UNCHANGED <<start_date, end_date, player_data, game_data_df, schedule,
                   bucket>>

\* Faulty variant of BuildGameStats: the loop body ends after the build, the
\* store_game call does not belong to it.
BuildGameStatsWithoutStore ==
    /\ pc = "build"
    /\ LET r == create_game_stats(game_data)
       IN  /\ game_data' = [game_data EXCEPT !.teams = r.teams]
           /\ calls' = Append(calls,
                   Call("create_game_stats", game, "",
                        IF r.err = "" THEN "returned" ELSE "raised"))
           /\ game_data_df' = r.df
           /\ result' = IF r.err = "" THEN result
                         ELSE CrawlRaise(r.err, "", NoDate, NoDate)
           /\ pc' = IF r.err = "" THEN "loop" ELSE "Failed"
    /\ UNCHANGED <<start_date, end_date, player_data, schedule, todo, game,
                   bucket>>

\* game_data_df = self.create_game_stats(game_data)
BuildGameStats ==
    /\ pc = "build"
    /\ LET r == create_game_stats(game_data)
       IN  /\ game_data' = [game_data EXCEPT !.teams = r.teams]
           /\ IF r.err = ""
              THEN /\ calls' = Append(calls,
                           Call("create_game_stats", game, "", "returned"))
                   /\ game_data_df' = r.df
                   /\ pc' = "store"
                   /\ UNCHANGED result
              ELSE /\ calls' = Append(calls,
                           Call("create_game_stats", game, "", "raised"))
                   /\ result' = CrawlRaise(r.err, "", NoDate, NoDate)
                   /\ pc' = "Failed"
                   /\ UNCHANGED game_data_df
    /\ UNCHANGED <<start_date, end_date, player_data, schedule, todo, game,
                   bucket>>

\* Faulty variant of StoreGame: store_game catches the exception of put_object and
\* the loop goes on.
StoreGameSwallowing ==
    /\ pc = "store"
    /\ LET key == StorageKey(game)
       IN  \/ /\ calls' = Append(calls, Call("put_object", game, key, "raised"))
              /\ UNCHANGED bucket
           \/ /\ calls' = Append(calls, Call("put_object", game, key, "returned"))
              /\ bucket' = put_object(bucket, key, to_csv(game_data_df))
    /\ pc' = "loop"
    /\ UNCHANGED <<start_date, end_date, result, game_data, player_data,
                   game_data_df, schedule, todo, game>>

\* to_csv, then self.storage.store_game(StorageKey(gamePk), csv): put_object
\* raises and the exception leaves store_game and crawl, or the object is
\* written and store_game returns True.
StoreGame ==
    /\ pc = "store"
    /\ LET key == StorageKey(game)
       IN  \/ /\ calls' = Append(calls, Call("put_object", game, key, "raised"))
              /\ result' = CrawlRaise("ClientError", "", NoDate, NoDate)
              /\ pc' = "Failed"
              /\ UNCHANGED bucket
           \/ /\ calls' = Append(calls, Call("put_object", game, key, "returned"))
              /\ bucket' = put_object(bucket, key, to_csv(game_data_df))
              /\ pc' = "loop"
              /\ UNCHANGED result
    /\ UNCHANGED <<start_date, end_date, game_data, player_data,
                   game_data_df, schedule, todo, game>>

\* Both for-loops are exhausted: crawl returns None.
Finish ==
    /\ pc = "loop" /\ todo = <<>>
    /\ pc' = "Done"
    /\ UNCHANGED <<start_date, end_date, result, game_data, player_data,
                   game_data_df, schedule, todo, game, bucket, calls>>

Next == FetchSchedule \/ FetchBoxscore \/ BuildGameStats \/ StoreGame \/ Finish

Spec == Init /\ [][Next]_vars

(***************************************************************************)
(* Properties of Crawler.crawl (specification Spec).                       *)
(***************************************************************************)
\* The calls of one kind, in the order they were issued.
CallsOf(op) == LET Is(c) == c.op = op IN SelectSeq(calls, Is)

\* The games of the schedule, date by date, each date in listing order.
RECURSIVE Listed(_, _)
Listed(dates, n) ==
    IF n = 0 THEN <<>> ELSE Listed(dates, n - 1) \o dates[n]

\* C5: when crawl has returned, the bucket holds exactly one object per
\* scheduled game, the object of game g under the key "g.csv"; the writes
\* were issued in schedule order; no other key was written.
C5_OneObjectPerGame ==
    pc = "Done" =>
        LET games == Listed(schedule, Len(schedule))
            puts == CallsOf("put_object")
        IN  /\ Len(puts) = Len(games)
            /\ \A i \in DOMAIN puts :
                   /\ puts[i].key = ToString(games[i]) \o ".csv"
                   /\ puts[i].outcome = "returned"
            /\ Keys(bucket) = {ToString(games[i]) \o ".csv" : i \in DOMAIN games}
            /\ Len(bucket) = Cardinality({games[i] : i \in DOMAIN games})

\* C5 witness: crawl returned after a schedule of two dates, with two
\* different games on the first date.
C5_Witness ==
    /\ pc = "Done"
    /\ Len(schedule) = 2
    /\ Len(schedule[1]) = 2 /\ schedule[1][1] # schedule[1][2]
    /\ Len(schedule[2]) >= 1
    /\ Len(bucket) >= 2

\* A step in which a call for a game (fetch, build or write) raised.
GameFailureStep ==
    /\ calls' # calls
    /\ calls'[Len(calls')].op # "schedule"
    /\ calls'[Len(calls')].outcome = "raised"

\* C7: a step in which the box-score fetch, the table build or the store
\* write of a game fails ends crawl with that exception and leaves the
\* bucket as it was; a failed crawl stays failed (it never returns), issues
\* no further call and writes nothing more.
C7_AbortOnFirstGameFailure ==
    [][ /\ GameFailureStep =>
               /\ pc' = "Failed"
               /\ result'.raised # ""
               /\ bucket' = bucket
        /\ pc = "Failed" =>
               /\ pc' = "Failed"
               /\ calls' = calls
               /\ bucket' = bucket ]_vars

\* C7 witness: the store write of a game failed after an earlier game was
\* stored and with a game still to come; crawl has failed.
C7_Witness ==
    /\ pc = "Failed"
    /\ calls[Len(calls)].op = "put_object"
    /\ calls[Len(calls)].outcome = "raised"
    /\ Len(bucket) >= 1
    /\ todo # <<>>

\* C8: when the schedule fetch has raised, crawl has failed with an
\* exception that carries the requested start and end date, and no other
\* call (box-score fetch, store write) was issued.
C8_ScheduleFailure ==
    (calls # <<>> /\ calls[1].outcome = "raised") =>
        /\ pc = "Failed"
        /\ result.raised = "Exception"
        /\ result.message.start_date = start_date
        /\ result.message.end_date = end_date
        /\ Len(calls) = 1
        /\ bucket = <<>>

\* C8 witness: the schedule fetch raised.
C8_Witness ==
    /\ calls # <<>>
    /\ calls[1].op = "schedule" /\ calls[1].outcome = "raised"
    /\ pc = "Failed"

\* C9: the schedule is fetched once, before everything else; a box-score
\* fetch follows the schedule fetch or the finished store write of the
\* game before it; the table build follows the fetch of its game and the
\* store write follows the build of its game; every finished write is in
\* the bucket.
C9_StrictSequence ==
    \A i \in DOMAIN calls :
        LET c == calls[i]
        IN  /\ (c.op = "schedule") <=> (i = 1)
            /\ i > 1 => calls[i - 1].outcome = "returned"
            /\ c.op = "boxscore" =>
                   \/ i = 2
                   \/ calls[i - 1].op = "put_object"
            /\ c.op = "create_game_stats" =>
                   calls[i - 1].op = "boxscore" /\ calls[i - 1].game = c.game
            /\ c.op = "put_object" =>
                   /\ calls[i - 1].op = "create_game_stats"
                   /\ calls[i - 1].game = c.game
                   /\ c.outcome = "returned" => c.key \in Keys(bucket)

\* C9 witness: two games have gone through fetch, build and write.
C9_Witness ==
    /\ Len(calls) = 7
    /\ calls[7].op = "put_object" /\ calls[7].outcome = "returned"
    /\ calls[4].game # calls[7].game

====
